---- MODULE Spec2Model ----
(***************************************************************************)
(* Snapshot serialization of the L4 read/write hash table                  *)
(* (inc/L4/HashTable/ReadWrite/Serializer.h).                              *)
(*                                                                         *)
(* The model follows Current::Serializer::Serialize, the driver's          *)
(* Deserializer::Deserialize and Current::Deserializer::Deserialize        *)
(* statement by statement: one action per statement that touches the       *)
(* stream, the table or the perf counters.  The byte stream, the hash      *)
(* table's read-only iterator and its writable view are collaborators      *)
(* whose code lives outside Serializer.h; they are modelled from their     *)
(* documented contracts.                                                   *)
(***************************************************************************)
EXTENDS Integers, Sequences, FiniteSets

VARIABLES
    hashTable,    \* the table handed to Serialize (setting, records, perf counters)
    writer,       \* the IStreamWriter handed to Serialize
    spc,          \* position of Serialize in its body
    iterator,     \* records the read-only iterator has not visited yet
    cur,          \* record under the iterator (GetKey / GetValue)
    sexc,         \* exception that left Serialize, if any
    feed,         \* how the bytes handed to Deserialize were obtained
    reader,       \* the IStreamReader handed to Deserialize
    dpc,          \* position of Deserialize in its body
    version,      \* driver local: std::uint8_t version
    setting,      \* Current::Deserializer local: HashTable::Setting setting
    newTable,     \* Current::Deserializer local: hashTable (the table being rebuilt)
    hasMoreData,  \* Current::Deserializer local
    key,          \* Current::Deserializer local (m_size, m_data over keyBuffer)
    value,        \* Current::Deserializer local (m_size, m_data over valueBuffer)
    dexc,         \* exception that left Deserialize, if any
    returned,     \* the table Deserialize returned to its caller, if any
    observer,     \* what another thread has read from the perf counters
    lookup        \* a lock-free reader thread of the table handed to Serialize

vars == <<hashTable, writer, spc, iterator, cur, sexc, feed, reader, dpc,
          version, setting, newTable, hasMoreData, key, value, dexc, returned,
          observer, lookup>>

svars == <<hashTable, writer, spc, iterator, cur, sexc>>
dvars == <<feed, reader, dpc, version, setting, newTable, hasMoreData,
           key, value, dexc, returned>>
cvars == <<observer, lookup>>

(***************************************************************************)
(* Bounds and input universes                                              *)
(***************************************************************************)

\* Largest number of records in the table handed to Serialize.
MaxRecords == 2

\* Bytes of the opaque HashTable::Setting blob (sizeof(hashTable.m_setting)).
SettingSize == 2

\* Byte values that occur in hand-made stream bytes.
Byte == 0 .. 3

\* Keys and values stored in the table: byte blocks, the empty one included.
Keys == { <<>>, <<1>>, <<2>> }
Values == { <<>>, <<3>> }

\* Setting blobs: all zero, and a non-zero pattern.
Settings == { [i \in 1 .. SettingSize |-> 0],
              [i \in 1 .. SettingSize |-> 1 + (i % 2)] }

(***************************************************************************)
(* Constants of the format                                                 *)
(***************************************************************************)

c_version == 3

\* Width in bytes of a block's m_size field on the wire.
SizeWidth == 4

(***************************************************************************)
(* SerializerHelper / DeserializerHelper: values as raw bytes              *)
(***************************************************************************)

RECURSIVE SizeBytesN(_, _)
SizeBytesN(n, w) ==
    IF w = 0 THEN <<>> ELSE <<n % 256>> \o SizeBytesN(n \div 256, w - 1)

\* helper.Serialize(key.m_size): the integer's SizeWidth low bytes, low byte first.
SizeBytes(n) == SizeBytesN(n, SizeWidth)

RECURSIVE SizeOfBytes(_)
\* helper.Deserialize(key.m_size): the integer those bytes hold.
SizeOfBytes(bs) ==
    IF bs = <<>> THEN 0 ELSE Head(bs) + 256 * SizeOfBytes(Tail(bs))

\* helper.Serialize(true) / helper.Serialize(false): one byte.
BoolBytes(b) == IF b THEN <<1>> ELSE <<0>>

\* helper.Deserialize(hasMoreData): the values a bool read from one raw byte
\* can test as.  0 is false and 1 is true; any other byte is not a valid bool
\* representation and the loop test may go either way.
BoolOfByte(b) ==
    IF b = 0 THEN {FALSE} ELSE IF b = 1 THEN {TRUE} ELSE BOOLEAN

(***************************************************************************)
(* Tables                                                                  *)
(***************************************************************************)

Record(k, v) == [key |-> k, value |-> v]

KeysOf(recs) == { r.key : r \in recs }

UniqueKeys(recs) == \A r1, r2 \in recs : r1.key = r2.key => r1 = r2

NullTable == [alive |-> FALSE, setting |-> <<>>, recs |-> {}, saved |-> 0, loaded |-> 0]

\* memory.MakeUnique<HashTable>(setting, allocator): an empty table, counters 0.
MakeTable(s) == [alive |-> TRUE, setting |-> s, recs |-> {}, saved |-> 0, loaded |-> 0]

NoException == [what |-> "none", arg |-> 0]

Exception(w, a) == [what |-> w, arg |-> a]

\* Tables a caller can hand to Serialize: built by the application, never
\* serialized or deserialized yet, so both counters are 0.
SourceTables ==
    { [alive |-> TRUE, setting |-> s, recs |-> R, saved |-> 0, loaded |-> 0] :
        s \in Settings,
        R \in { Q \in SUBSET { Record(k, v) : k \in Keys, v \in Values } :
                    UniqueKeys(Q) /\ Cardinality(Q) <= MaxRecords } }

(***************************************************************************)
(* IStreamWriter / IStreamReader                                           *)
(***************************************************************************)

NewWriter == [begun |-> 0, ended |-> 0, writes |-> 0, data |-> <<>>]

\* writer.Write(buf, n) that transfers all n bytes.
Write(w, bytes) == [w EXCEPT !.writes = @ + 1, !.data = @ \o bytes]

\* writer.Write(buf, n) that faults: the call is made, nothing is transferred.
WriteFault(w) == [w EXCEPT !.writes = @ + 1]

NewReader(bytes) == [begun |-> 0, ended |-> 0, reads |-> 0, pos |-> 0, data |-> bytes]

\* reader.Read(buf, n) is exact-count: it can be satisfied iff n bytes remain.
CanRead(r, n) == r.pos + n <= Len(r.data)

ReadBytes(r, n) == SubSeq(r.data, r.pos + 1, r.pos + n)

Read(r, n) == [r EXCEPT !.reads = @ + 1, !.pos = @ + n]

ReadFault(r) == [r EXCEPT !.reads = @ + 1]

NoFeed == [kind |-> "none", at |-> 0]

(***************************************************************************)
(* Initial state: a table built by the application, nothing started        *)
(***************************************************************************)

NoRecord == Record(<<>>, <<>>)

NoBlob == [m_size |-> 0, m_data |-> <<>>]

\* The observer thread has read nothing: pre is the records-written counter
\* read before Serialize was called, seen the value read later (during the
\* call or after it), loaded the records-read counter of the returned table.
NoObservation == [pre |-> -1, seen |-> -1, when |-> "none", loaded |-> -1]

\* The reader thread is not inside a lookup and has no result.
NoLookup ==
    [active |-> FALSE, key |-> <<>>, found |-> FALSE, value |-> <<>>, at |-> "none"]

Init ==
    /\ hashTable \in SourceTables
    /\ writer = NewWriter
    /\ spc = "Begin"
    /\ iterator = {}
    /\ cur = NoRecord
    /\ sexc = NoException
    /\ feed = NoFeed
    /\ reader = NewReader(<<>>)
    /\ dpc = "idle"
    /\ version = 0
    /\ setting = <<>>
    /\ newTable = NullTable
    /\ hasMoreData = FALSE
    /\ key = NoBlob
    /\ value = NoBlob
    /\ dexc = NoException
    /\ returned = NullTable
    /\ observer = NoObservation
    /\ lookup = NoLookup

(***************************************************************************)
(* Current::Serializer::Serialize (reached through Serializer::Serialize)  *)
(***************************************************************************)

\* Variant: a faulted Write is noted and Serialize carries on.
SWriteIgnoresFault(bytes, next) ==
    \/ /\ writer' = Write(writer, bytes)
       /\ spc' = next
       /\ sexc' = sexc
    \/ /\ writer' = WriteFault(writer)
       /\ spc' = next
       /\ sexc' = Exception("StreamFault", Len(bytes))

\* One helper.Serialize(...) call: the bytes go out and Serialize moves on, or
\* the Write faults and the exception leaves Serialize at once.
SWrite(bytes, next) ==
    \/ /\ writer' = Write(writer, bytes)
       /\ spc' = next
       /\ sexc' = sexc
    \/ /\ writer' = WriteFault(writer)
       /\ spc' = "failed"
       /\ sexc' = Exception("StreamFault", Len(bytes))

\* writer.Begin();
SBegin ==
    /\ spc = "Begin"
    /\ writer' = [writer EXCEPT !.begun = @ + 1]
    /\ spc' = "Reset"
    /\ UNCHANGED <<hashTable, iterator, cur, sexc>>
    /\ UNCHANGED <<dvars, cvars>>

\* Variant: the reset of the records-written counter is left out.
SResetCounterOmitted ==
    /\ spc = "Reset"
    /\ spc' = "Version"
    /\ UNCHANGED <<hashTable, writer, iterator, cur, sexc>>
    /\ UNCHANGED <<dvars, cvars>>

\* perfData.Set(RecordsCountSavedFromSerializer, 0);
SResetCounter ==
    /\ spc = "Reset"
    /\ hashTable' = [hashTable EXCEPT !.saved = 0]
    /\ spc' = "Version"
    /\ UNCHANGED <<writer, iterator, cur, sexc>>
    /\ UNCHANGED <<dvars, cvars>>

\* helper.Serialize(c_version);
SWriteVersion ==
    /\ spc = "Version"
    /\ SWrite(<<c_version>>, "Setting")
    /\ UNCHANGED <<hashTable, iterator, cur>>
    /\ UNCHANGED <<dvars, cvars>>

\* helper.Serialize(&hashTable.m_setting, sizeof(hashTable.m_setting));
SWriteSetting ==
    /\ spc = "Setting"
    /\ SWrite(hashTable.setting, "Iterator")
    /\ UNCHANGED <<hashTable, iterator, cur>>
    /\ UNCHANGED <<dvars, cvars>>

\* Variant: the iterator is handed out only while no reader is inside the table.
SGetIteratorExclusive ==
    /\ spc = "Iterator"
    /\ ~lookup.active
    /\ iterator' = hashTable.recs
    /\ spc' = "MoveNext"
    /\ UNCHANGED <<hashTable, writer, cur, sexc>>
    /\ UNCHANGED <<dvars, cvars>>

\* ReadOnlyHashTable readOnlyHashTable(hashTable); GetIterator();
SGetIterator ==
    /\ spc = "Iterator"
    /\ iterator' = hashTable.recs
    /\ spc' = "MoveNext"
    /\ UNCHANGED <<hashTable, writer, cur, sexc>>
    /\ UNCHANGED <<dvars, cvars>>

\* Variant: MoveNext takes the record it yields out of the table.
SMoveNextDraining ==
    /\ spc = "MoveNext"
    /\ \/ /\ iterator # {}
          /\ \E r \in iterator :
                /\ cur' = r
                /\ iterator' = iterator \ {r}
                /\ hashTable' = [hashTable EXCEPT !.recs = @ \ {r}]
          /\ spc' = "Flag"
       \/ /\ iterator = {}
          /\ spc' = "EndFlag"
          /\ UNCHANGED <<iterator, cur, hashTable>>
    /\ UNCHANGED <<writer, sexc>>
    /\ UNCHANGED <<dvars, cvars>>

\* Variant: MoveNext yields a record without advancing past it.
SMoveNextNoAdvance ==
    /\ spc = "MoveNext"
    /\ \/ /\ iterator # {}
          /\ \E r \in iterator :
                /\ cur' = r
                /\ iterator' = iterator
          /\ spc' = "Flag"
       \/ /\ iterator = {}
          /\ spc' = "EndFlag"
          /\ UNCHANGED <<iterator, cur>>
    /\ UNCHANGED <<hashTable, writer, sexc>>
    /\ UNCHANGED <<dvars, cvars>>

\* while (iterator->MoveNext()): the next live record, in an order the table
\* chooses; false once every record has been visited.
SMoveNext ==
    /\ spc = "MoveNext"
    /\ \/ /\ iterator # {}
          /\ \E r \in iterator :
                /\ cur' = r
                /\ iterator' = iterator \ {r}
          /\ spc' = "Flag"
       \/ /\ iterator = {}
          /\ spc' = "EndFlag"
          /\ UNCHANGED <<iterator, cur>>
    /\ UNCHANGED <<hashTable, writer, sexc>>
    /\ UNCHANGED <<dvars, cvars>>

\* helper.Serialize(true);
SWriteFlag ==
    /\ spc = "Flag"
    /\ SWrite(BoolBytes(TRUE), "KeySize")
    /\ UNCHANGED <<hashTable, iterator, cur>>
    /\ UNCHANGED <<dvars, cvars>>

\* Variant: the key's length field carries the value's size.
SWriteKeySizeOfValue ==
    /\ spc = "KeySize"
    /\ SWrite(SizeBytes(Len(cur.value)), "KeyData")
    /\ UNCHANGED <<hashTable, iterator, cur>>
    /\ UNCHANGED <<dvars, cvars>>

\* helper.Serialize(key.m_size);
SWriteKeySize ==
    /\ spc = "KeySize"
    /\ SWrite(SizeBytes(Len(cur.key)), "KeyData")
    /\ UNCHANGED <<hashTable, iterator, cur>>
    /\ UNCHANGED <<dvars, cvars>>

\* helper.Serialize(key.m_data, key.m_size);
SWriteKeyData ==
    /\ spc = "KeyData"
    /\ SWrite(cur.key, "ValueSize")
    /\ UNCHANGED <<hashTable, iterator, cur>>
    /\ UNCHANGED <<dvars, cvars>>

\* Variant: the value block is prefixed with the key's size.
SWriteValueSizeOfKey ==
    /\ spc = "ValueSize"
    /\ SWrite(SizeBytes(Len(cur.key)), "ValueData")
    /\ UNCHANGED <<hashTable, iterator, cur>>
    /\ UNCHANGED <<dvars, cvars>>

\* helper.Serialize(value.m_size);
SWriteValueSize ==
    /\ spc = "ValueSize"
    /\ SWrite(SizeBytes(Len(cur.value)), "ValueData")
    /\ UNCHANGED <<hashTable, iterator, cur>>
    /\ UNCHANGED <<dvars, cvars>>

\* helper.Serialize(value.m_data, value.m_size);
SWriteValueData ==
    /\ spc = "ValueData"
    /\ SWrite(cur.value, "Increment")
    /\ UNCHANGED <<hashTable, iterator, cur>>
    /\ UNCHANGED <<dvars, cvars>>

\* Variant: records with an empty key are not counted.
SIncrementSkipsEmpty ==
    /\ spc = "Increment"
    /\ hashTable' = [hashTable EXCEPT !.saved = IF cur.key = <<>> THEN @ ELSE @ + 1]
    /\ spc' = "MoveNext"
    /\ UNCHANGED <<writer, iterator, cur, sexc>>
    /\ UNCHANGED <<dvars, cvars>>

\* perfData.Increment(RecordsCountSavedFromSerializer);
SIncrement ==
    /\ spc = "Increment"
    /\ hashTable' = [hashTable EXCEPT !.saved = @ + 1]
    /\ spc' = "MoveNext"
    /\ UNCHANGED <<writer, iterator, cur, sexc>>
    /\ UNCHANGED <<dvars, cvars>>

\* Variant: the terminating flag is not written.
SWriteEndFlagOmitted ==
    /\ spc = "EndFlag"
    /\ spc' = "End"
    /\ UNCHANGED <<hashTable, writer, iterator, cur, sexc>>
    /\ UNCHANGED <<dvars, cvars>>

\* helper.Serialize(false);
SWriteEndFlag ==
    /\ spc = "EndFlag"
    /\ SWrite(BoolBytes(FALSE), "End")
    /\ UNCHANGED <<hashTable, iterator, cur>>
    /\ UNCHANGED <<dvars, cvars>>

\* Variant: Serialize returns without calling writer.End().
SEndOmitted ==
    /\ spc = "End"
    /\ spc' = "done"
    /\ UNCHANGED <<hashTable, writer, iterator, cur, sexc>>
    /\ UNCHANGED <<dvars, cvars>>

\* Variant: the records-written counter is cleared again when the stream ends.
SEndClearsCounter ==
    /\ spc = "End"
    /\ writer' = [writer EXCEPT !.ended = @ + 1]
    /\ hashTable' = [hashTable EXCEPT !.saved = 0]
    /\ spc' = "done"
    /\ UNCHANGED <<iterator, cur, sexc>>
    /\ UNCHANGED <<dvars, cvars>>

\* std::atomic_thread_fence(std::memory_order_release); writer.End();
SEnd ==
    /\ spc = "End"
    /\ writer' = [writer EXCEPT !.ended = @ + 1]
    /\ spc' = "done"
    /\ UNCHANGED <<hashTable, iterator, cur, sexc>>
    /\ UNCHANGED <<dvars, cvars>>

\* The caller serializes the same table again, with a writer not started yet;
\* in between the application may have removed a record from the table.  The
\* threads that watch this call start afresh.
SerializeAgain ==
    /\ spc \in {"done", "failed"}
    /\ dpc = "idle"
    /\ \E R \in {hashTable.recs} \cup { hashTable.recs \ {r} : r \in hashTable.recs } :
          hashTable' = [hashTable EXCEPT !.recs = R]
    /\ writer' = NewWriter
    /\ spc' = "Begin"
    /\ iterator' = {}
    /\ cur' = NoRecord
    /\ sexc' = NoException
    /\ observer' = NoObservation
    /\ lookup' = NoLookup
    /\ UNCHANGED dvars

Serialize ==
    \/ SBegin \/ SResetCounter \/ SWriteVersion \/ SWriteSetting
    \/ SGetIterator \/ SMoveNext \/ SWriteFlag \/ SWriteKeySize
    \/ SWriteKeyData \/ SWriteValueSize \/ SWriteValueData \/ SIncrement
    \/ SWriteEndFlag \/ SEnd

(***************************************************************************)
(* The bytes handed to Deserialize                                         *)
(***************************************************************************)

\* One record group as Serialize lays it out: flag, key block, value block.
RecordBytes(k, v) ==
    BoolBytes(TRUE) \o SizeBytes(Len(k)) \o k \o SizeBytes(Len(v)) \o v

StartDeserialize(bytes, how) ==
    /\ spc = "done"
    /\ dpc = "idle"
    /\ reader' = NewReader(bytes)
    /\ feed' = how
    /\ dpc' = "Begin"
    /\ UNCHANGED <<version, setting, newTable, hasMoreData, key, value, dexc, returned>>
    /\ UNCHANGED <<svars, cvars>>

\* The stream Serialize produced, as it is.
FeedSnapshot == StartDeserialize(writer.data, [kind |-> "snapshot", at |-> 0])

\* A proper prefix of it (the stream was cut at byte n).
FeedTruncated ==
    \E n \in 0 .. Len(writer.data) - 1 :
        StartDeserialize(SubSeq(writer.data, 1, n), [kind |-> "truncated", at |-> n])

\* The stream followed by one more byte.
FeedTrailing ==
    \E b \in Byte :
        StartDeserialize(writer.data \o <<b>>, [kind |-> "trailing", at |-> b])

\* The stream with one byte changed.
FeedCorrupted ==
    \E i \in 1 .. Len(writer.data) : \E b \in Byte \ {writer.data[i]} :
        StartDeserialize([writer.data EXCEPT ![i] = b], [kind |-> "corrupted", at |-> i])

\* A hand-made stream: the snapshot with one more record group before the
\* terminator, carrying a key the snapshot already holds.
FeedDuplicate ==
    \E k \in KeysOf(hashTable.recs) : \E v \in Values :
        StartDeserialize(
            SubSeq(writer.data, 1, Len(writer.data) - 1)
                \o RecordBytes(k, v) \o BoolBytes(FALSE),
            [kind |-> "duplicate", at |-> 0])

Feed ==
    \/ FeedSnapshot \/ FeedTruncated \/ FeedTrailing \/ FeedCorrupted
    \/ FeedDuplicate

(***************************************************************************)
(* Deserializer::Deserialize (the driver)                                  *)
(***************************************************************************)

\* An exception leaves Deserialize: the unique_ptr local destroys the table
\* being rebuilt and nothing is returned.
DThrow(e) ==
    /\ dexc' = e
    /\ dpc' = "failed"
    /\ newTable' = NullTable

\* reader.Begin();
DBegin ==
    /\ dpc = "Begin"
    /\ reader' = [reader EXCEPT !.begun = @ + 1]
    /\ dpc' = "Version"
    /\ UNCHANGED <<feed, version, setting, newTable, hasMoreData, key, value,
                   dexc, returned>>
    /\ UNCHANGED <<svars, cvars>>

\* reader.Read(&version, sizeof(version));
DReadVersion ==
    /\ dpc = "Version"
    /\ IF CanRead(reader, 1)
       THEN /\ reader' = Read(reader, 1)
            /\ version' = ReadBytes(reader, 1)[1]
            /\ dpc' = "Dispatch"
            /\ UNCHANGED <<newTable, dexc>>
       ELSE /\ reader' = ReadFault(reader)
            /\ DThrow(Exception("StreamFault", 1))
            /\ UNCHANGED version
    /\ UNCHANGED <<feed, setting, hasMoreData, key, value, returned>>
    /\ UNCHANGED <<svars, cvars>>

\* Variant: every version byte is handed to the current deserializer.
DDispatchAny ==
    /\ dpc = "Dispatch"
    /\ dpc' = "Setting"
    /\ UNCHANGED <<feed, reader, version, setting, newTable, hasMoreData, key,
                   value, dexc, returned>>
    /\ UNCHANGED <<svars, cvars>>

\* Variant: tags 1 and 2 are accepted and read with the current layout.
DDispatchPriorTags ==
    /\ dpc = "Dispatch"
    /\ IF version \in {1, 2, c_version}
       THEN /\ dpc' = "Setting"
            /\ UNCHANGED <<newTable, dexc>>
       ELSE DThrow(Exception("UnsupportedVersion", version))
    /\ UNCHANGED <<feed, reader, version, setting, hasMoreData, key, value, returned>>
    /\ UNCHANGED <<svars, cvars>>

\* switch (version) { case Current::c_version: ...; default: throw ... }
DDispatch ==
    /\ dpc = "Dispatch"
    /\ IF version = c_version
       THEN /\ dpc' = "Setting"
            /\ UNCHANGED <<newTable, dexc>>
       ELSE DThrow(Exception("UnsupportedVersion", version))
    /\ UNCHANGED <<feed, reader, version, setting, hasMoreData, key, value, returned>>
    /\ UNCHANGED <<svars, cvars>>

(***************************************************************************)
(* The replay guard and the writable view                                  *)
(***************************************************************************)

\* Variant: the guard accepts the action silently.
RegisterActionNoOp == NoException

\* EpochActionManager::RegisterAction: always throws, registers nothing.
RegisterAction == Exception("ReplayInvariantViolation", 0)

\* WritableHashTable::Add on a key the table holds: the stored value is
\* replaced and the old record is handed to the epoch manager for reclamation.
AddNeedsReclaim(t, k) == k \in KeysOf(t.recs)

\* WritableHashTable::Add: the table afterwards.
Add(t, k, v) ==
    [t EXCEPT !.recs = { r \in @ : r.key # k } \cup { Record(k, v) }]

(***************************************************************************)
(* Current::Deserializer::Deserialize                                      *)
(***************************************************************************)

\* helper.Deserialize(setting);
DReadSetting ==
    /\ dpc = "Setting"
    /\ IF CanRead(reader, SettingSize)
       THEN /\ reader' = Read(reader, SettingSize)
            /\ setting' = ReadBytes(reader, SettingSize)
            /\ dpc' = "MakeTable"
            /\ UNCHANGED <<newTable, dexc>>
       ELSE /\ reader' = ReadFault(reader)
            /\ DThrow(Exception("StreamFault", SettingSize))
            /\ UNCHANGED setting
    /\ UNCHANGED <<feed, version, hasMoreData, key, value, returned>>
    /\ UNCHANGED <<svars, cvars>>

\* auto hashTable{ memory.MakeUnique<HashTable>(setting, memory.GetAllocator()) };
DMakeTable ==
    /\ dpc = "MakeTable"
    /\ newTable' = MakeTable(setting)
    /\ dpc' = "FirstFlag"
    /\ UNCHANGED <<feed, reader, version, setting, hasMoreData, key, value,
                   dexc, returned>>
    /\ UNCHANGED <<svars, cvars>>

\* Variant: a short read of the first flag is swallowed, leaving hasMoreData
\* at its initial false.
DReadFirstFlagLenient ==
    /\ dpc = "FirstFlag"
    /\ IF CanRead(reader, 1)
       THEN /\ reader' = Read(reader, 1)
            /\ \E h \in BoolOfByte(ReadBytes(reader, 1)[1]) :
                  /\ hasMoreData' = h
                  /\ dpc' = IF h THEN "KeySize" ELSE "End"
       ELSE /\ reader' = ReadFault(reader)
            /\ hasMoreData' = FALSE
            /\ dpc' = "End"
    /\ UNCHANGED <<feed, version, setting, newTable, key, value, dexc, returned>>
    /\ UNCHANGED <<svars, cvars>>

\* Variant: the loop body runs once before the flag is tested (do-while).
DReadFirstFlagDoWhile ==
    /\ dpc = "FirstFlag"
    /\ IF CanRead(reader, 1)
       THEN /\ reader' = Read(reader, 1)
            /\ hasMoreData' \in BoolOfByte(ReadBytes(reader, 1)[1])
            /\ dpc' = "KeySize"
            /\ UNCHANGED <<newTable, dexc>>
       ELSE /\ reader' = ReadFault(reader)
            /\ DThrow(Exception("StreamFault", 1))
            /\ UNCHANGED hasMoreData
    /\ UNCHANGED <<feed, version, setting, key, value, returned>>
    /\ UNCHANGED <<svars, cvars>>

\* bool hasMoreData = false; helper.Deserialize(hasMoreData); while (hasMoreData)
DReadFirstFlag ==
    /\ dpc = "FirstFlag"
    /\ IF CanRead(reader, 1)
       THEN /\ reader' = Read(reader, 1)
            /\ \E h \in BoolOfByte(ReadBytes(reader, 1)[1]) :
                  /\ hasMoreData' = h
                  /\ dpc' = IF h THEN "KeySize" ELSE "End"
            /\ UNCHANGED <<newTable, dexc>>
       ELSE /\ reader' = ReadFault(reader)
            /\ DThrow(Exception("StreamFault", 1))
            /\ UNCHANGED hasMoreData
    /\ UNCHANGED <<feed, version, setting, key, value, returned>>
    /\ UNCHANGED <<svars, cvars>>

\* helper.Deserialize(key.m_size);
DReadKeySize ==
    /\ dpc = "KeySize"
    /\ IF CanRead(reader, SizeWidth)
       THEN /\ reader' = Read(reader, SizeWidth)
            /\ key' = [m_size |-> SizeOfBytes(ReadBytes(reader, SizeWidth)),
                       m_data |-> <<>>]
            /\ dpc' = "KeyData"
            /\ UNCHANGED <<newTable, dexc>>
       ELSE /\ reader' = ReadFault(reader)
            /\ DThrow(Exception("StreamFault", SizeWidth))
            /\ UNCHANGED key
    /\ UNCHANGED <<feed, version, setting, hasMoreData, value, returned>>
    /\ UNCHANGED <<svars, cvars>>

\* Variant: a key of size 0 is taken as the end of the records.
DReadKeyDataZeroEnds ==
    /\ dpc = "KeyData"
    /\ IF key.m_size = 0
       THEN /\ dpc' = "End"
            /\ UNCHANGED <<reader, key, newTable, dexc>>
       ELSE IF CanRead(reader, key.m_size)
       THEN /\ reader' = Read(reader, key.m_size)
            /\ key' = [key EXCEPT !.m_data = ReadBytes(reader, key.m_size)]
            /\ dpc' = "ValueSize"
            /\ UNCHANGED <<newTable, dexc>>
       ELSE /\ reader' = ReadFault(reader)
            /\ DThrow(Exception("StreamFault", key.m_size))
            /\ UNCHANGED key
    /\ UNCHANGED <<feed, version, setting, hasMoreData, value, returned>>
    /\ UNCHANGED <<svars, cvars>>

\* keyBuffer.resize(key.m_size); helper.Deserialize(keyBuffer.data(), key.m_size);
\* key.m_data = keyBuffer.data();
DReadKeyData ==
    /\ dpc = "KeyData"
    /\ IF CanRead(reader, key.m_size)
       THEN /\ reader' = Read(reader, key.m_size)
            /\ key' = [key EXCEPT !.m_data = ReadBytes(reader, key.m_size)]
            /\ dpc' = "ValueSize"
            /\ UNCHANGED <<newTable, dexc>>
       ELSE /\ reader' = ReadFault(reader)
            /\ DThrow(Exception("StreamFault", key.m_size))
            /\ UNCHANGED key
    /\ UNCHANGED <<feed, version, setting, hasMoreData, value, returned>>
    /\ UNCHANGED <<svars, cvars>>

\* helper.Deserialize(value.m_size);
DReadValueSize ==
    /\ dpc = "ValueSize"
    /\ IF CanRead(reader, SizeWidth)
       THEN /\ reader' = Read(reader, SizeWidth)
            /\ value' = [m_size |-> SizeOfBytes(ReadBytes(reader, SizeWidth)),
                         m_data |-> <<>>]
            /\ dpc' = "ValueData"
            /\ UNCHANGED <<newTable, dexc>>
       ELSE /\ reader' = ReadFault(reader)
            /\ DThrow(Exception("StreamFault", SizeWidth))
            /\ UNCHANGED value
    /\ UNCHANGED <<feed, version, setting, hasMoreData, key, returned>>
    /\ UNCHANGED <<svars, cvars>>

\* valueBuffer.resize(value.m_size);
\* helper.Deserialize(valueBuffer.data(), value.m_size);
\* value.m_data = valueBuffer.data();
DReadValueData ==
    /\ dpc = "ValueData"
    /\ IF CanRead(reader, value.m_size)
       THEN /\ reader' = Read(reader, value.m_size)
            /\ value' = [value EXCEPT !.m_data = ReadBytes(reader, value.m_size)]
            /\ dpc' = "Add"
            /\ UNCHANGED <<newTable, dexc>>
       ELSE /\ reader' = ReadFault(reader)
            /\ DThrow(Exception("StreamFault", value.m_size))
            /\ UNCHANGED value
    /\ UNCHANGED <<feed, version, setting, hasMoreData, key, returned>>
    /\ UNCHANGED <<svars, cvars>>

\* Variant: the guard's exception is caught and the record is skipped.
DAddSkipsDuplicate ==
    /\ dpc = "Add"
    /\ newTable' = IF AddNeedsReclaim(newTable, key.m_data)
                   THEN newTable
                   ELSE Add(newTable, key.m_data, value.m_data)
    /\ dpc' = "NextFlag"
    /\ UNCHANGED <<feed, reader, version, setting, hasMoreData, key, value,
                   dexc, returned>>
    /\ UNCHANGED <<svars, cvars>>

\* Variant: the record is counted as soon as it is inserted.
DAddCounts ==
    /\ dpc = "Add"
    /\ LET e == IF AddNeedsReclaim(newTable, key.m_data)
                THEN RegisterAction ELSE NoException
       IN  IF e.what = "none"
           THEN /\ newTable' = [Add(newTable, key.m_data, value.m_data)
                                   EXCEPT !.loaded = @ + 1]
                /\ dpc' = "NextFlag"
                /\ UNCHANGED dexc
           ELSE DThrow(e)
    /\ UNCHANGED <<feed, reader, version, setting, hasMoreData, key, value, returned>>
    /\ UNCHANGED <<svars, cvars>>

\* writableHashTable.Add(key, value); with the replay guard as its epoch manager.
DAdd ==
    /\ dpc = "Add"
    /\ LET e == IF AddNeedsReclaim(newTable, key.m_data)
                THEN RegisterAction ELSE NoException
       IN  IF e.what = "none"
           THEN /\ newTable' = Add(newTable, key.m_data, value.m_data)
                /\ dpc' = "NextFlag"
                /\ UNCHANGED dexc
           ELSE DThrow(e)
    /\ UNCHANGED <<feed, reader, version, setting, hasMoreData, key, value, returned>>
    /\ UNCHANGED <<svars, cvars>>

\* helper.Deserialize(hasMoreData);   (the last statement but one of the loop body)
DReadNextFlag ==
    /\ dpc = "NextFlag"
    /\ IF CanRead(reader, 1)
       THEN /\ reader' = Read(reader, 1)
            /\ hasMoreData' \in BoolOfByte(ReadBytes(reader, 1)[1])
            /\ dpc' = "Increment"
            /\ UNCHANGED <<newTable, dexc>>
       ELSE /\ reader' = ReadFault(reader)
            /\ DThrow(Exception("StreamFault", 1))
            /\ UNCHANGED hasMoreData
    /\ UNCHANGED <<feed, version, setting, key, value, returned>>
    /\ UNCHANGED <<svars, cvars>>

\* Variant: the record before the terminating flag is not counted.
DIncrementIfMore ==
    /\ dpc = "Increment"
    /\ newTable' = [newTable EXCEPT !.loaded = IF hasMoreData THEN @ + 1 ELSE @]
    /\ dpc' = IF hasMoreData THEN "KeySize" ELSE "End"
    /\ UNCHANGED <<feed, reader, version, setting, hasMoreData, key, value,
                   dexc, returned>>
    /\ UNCHANGED <<svars, cvars>>

\* perfData.Increment(RecordsCountLoadedFromSerializer); then the loop test.
DIncrement ==
    /\ dpc = "Increment"
    /\ newTable' = [newTable EXCEPT !.loaded = @ + 1]
    /\ dpc' = IF hasMoreData THEN "KeySize" ELSE "End"
    /\ UNCHANGED <<feed, reader, version, setting, hasMoreData, key, value,
                   dexc, returned>>
    /\ UNCHANGED <<svars, cvars>>

\* std::atomic_thread_fence(std::memory_order_release); reader.End();
\* return hashTable;
DEnd ==
    /\ dpc = "End"
    /\ reader' = [reader EXCEPT !.ended = @ + 1]
    /\ returned' = newTable
    /\ newTable' = NullTable
    /\ dpc' = "done"
    /\ UNCHANGED <<feed, version, setting, hasMoreData, key, value, dexc>>
    /\ UNCHANGED <<svars, cvars>>

Deserialize ==
    \/ DBegin \/ DReadVersion \/ DDispatch \/ DReadSetting \/ DMakeTable
    \/ DReadFirstFlag \/ DReadKeySize \/ DReadKeyData \/ DReadValueSize
    \/ DReadValueData \/ DAdd \/ DReadNextFlag \/ DIncrement \/ DEnd

(***************************************************************************)
(* Specification                                                           *)
(***************************************************************************)

Next == Serialize \/ SerializeAgain \/ Feed \/ Deserialize

Spec == Init /\ [][Next]_vars

\* Serialize and Deserialize are ordinary synchronous calls: once called, the
\* calling thread keeps executing their statements.
SpecFair == Spec /\ WF_vars(Serialize) /\ WF_vars(Deserialize)

(***************************************************************************)
(* A thread that reads the perf counters while the serializer works        *)
(***************************************************************************)

\* The values of records-written a read can return before the release fence
\* of this call: the increments are not synchronised one by one, so the read
\* returns the value from before the call or any value the call has stored.
VisibleSaved ==
    IF spc \in {"Begin", "Reset"}
    THEN {hashTable.saved}
    ELSE {observer.pre} \cup (0 .. hashTable.saved)

\* The observer reads records-written before Serialize is called.
ObservePre ==
    /\ spc = "Begin"
    /\ observer = NoObservation
    /\ observer' = [observer EXCEPT !.pre = hashTable.saved]
    /\ UNCHANGED <<svars, dvars, lookup>>

\* The observer reads records-written while Serialize runs (or after it was
\* left by a fault, where no fence was issued).
ObserveDuring ==
    /\ spc \notin {"Begin", "done"}
    /\ observer.pre # -1
    /\ observer.when = "none"
    /\ \E v \in VisibleSaved :
          observer' = [observer EXCEPT !.seen = v, !.when = "during"]
    /\ UNCHANGED <<svars, dvars, lookup>>

\* The observer reads records-written after Serialize has returned, that is
\* after std::atomic_thread_fence(std::memory_order_release).
ObserveAfter ==
    /\ spc = "done"
    /\ observer.pre # -1
    /\ observer.when # "after"
    /\ observer' = [observer EXCEPT !.seen = hashTable.saved, !.when = "after"]
    /\ UNCHANGED <<svars, dvars, lookup>>

\* The observer reads records-read.  The table under construction is owned by
\* Deserialize alone until it is returned, so only the returned table can be
\* read.
ObserveLoaded ==
    /\ dpc = "done"
    /\ returned.alive
    /\ observer.loaded = -1
    /\ observer' = [observer EXCEPT !.loaded = returned.loaded]
    /\ UNCHANGED <<svars, dvars, lookup>>

Observe == ObservePre \/ ObserveDuring \/ ObserveAfter \/ ObserveLoaded

NextObserved == Serialize \/ SerializeAgain \/ FeedSnapshot \/ Deserialize \/ Observe

SpecObserved == Init /\ [][NextObserved]_vars

(***************************************************************************)
(* A lock-free reader of the table that is being serialized                *)
(***************************************************************************)

\* A reader thread enters a lookup of some key.
ReaderBegin ==
    /\ dpc = "idle"
    /\ ~lookup.active
    /\ \E k \in Keys : lookup' = [NoLookup EXCEPT !.active = TRUE, !.key = k]
    /\ UNCHANGED <<svars, dvars, observer>>

\* The lookup returns: it has read the table and written nothing.  The field
\* at keeps where Serialize stood when the lookup returned.
ReaderEnd ==
    /\ lookup.active
    /\ LET hit == { r \in hashTable.recs : r.key = lookup.key }
       IN  lookup' = [lookup EXCEPT
                         !.active = FALSE,
                         !.found = (hit # {}),
                         !.value = IF hit = {} THEN <<>> ELSE (CHOOSE r \in hit : TRUE).value,
                         !.at = spc]
    /\ UNCHANGED <<svars, dvars, observer>>

Reader == ReaderBegin \/ ReaderEnd

NextWithReaders == Serialize \/ SerializeAgain \/ Reader

SpecWithReaders == Init /\ [][NextWithReaders]_vars

(***************************************************************************)
(* Properties                                                              *)
(***************************************************************************)

\* Number of live records in the table handed to Serialize.
N == Cardinality(hashTable.recs)

Failed(what) == dpc = "failed" /\ dexc.what = what

\* C1 (round trip): Deserialize of the stream Serialize produced never fails,
\* and the table it returns has the settings of the serialized table and
\* exactly its (key, value) pairs, in whatever order the iterator visited them.
C1_RoundTrip ==
    feed.kind = "snapshot" =>
        /\ dpc # "failed"
        /\ dexc = NoException
        /\ dpc = "done" =>
              /\ returned.alive
              /\ returned.setting = hashTable.setting
              /\ returned.recs = hashTable.recs

C1_Witness ==
    /\ feed.kind = "snapshot"
    /\ dpc = "done"
    /\ N = MaxRecords
    /\ returned.recs = hashTable.recs
    /\ returned.setting = hashTable.setting
    /\ \E r \in returned.recs : r.key # <<>> /\ r.value # <<>>

\* C2 (unsupported version): on a stream whose first byte is not 3, Deserialize
\* fails with UnsupportedVersion carrying that byte after exactly one Read of
\* one byte; no table is ever allocated or returned, no record is inserted and
\* reader.End() is not called.
C2_UnsupportedVersion ==
    (dpc # "idle" /\ Len(reader.data) >= 1 /\ reader.data[1] # 3) =>
        /\ newTable = NullTable
        /\ returned = NullTable
        /\ reader.ended = 0
        /\ \/ dpc \in {"Begin", "Version", "Dispatch"} /\ dexc = NoException
           \/ /\ dpc = "failed"
              /\ dexc = Exception("UnsupportedVersion", reader.data[1])
              /\ reader.reads = 1
              /\ reader.pos = 1

C2_Witness ==
    /\ Failed("UnsupportedVersion")
    /\ dexc.arg = 2
    /\ reader.pos = 1
    /\ Len(reader.data) > 1

\* C3 (duplicate key): on a tag-3 stream with valid settings and well-formed
\* records of which two carry the same key, Deserialize fails with
\* ReplayInvariantViolation, raised by the guard's RegisterAction when the second
\* record of that key is added, and no table is returned.  The action part
\* covers every stream: an Add of a key the table holds throws and ends the call.
C3_DuplicateKeyState ==
    /\ feed.kind = "duplicate" =>
          /\ returned = NullTable
          /\ dpc # "done"
          /\ dpc = "failed" =>
                dexc.what = "ReplayInvariantViolation" /\ newTable = NullTable
    /\ dexc.what = "ReplayInvariantViolation" => dpc = "failed" /\ returned = NullTable

C3_DuplicateKeyStep ==
    (dpc = "Add" /\ key.m_data \in KeysOf(newTable.recs)) =>
        /\ dpc' = "failed"
        /\ dexc'.what = "ReplayInvariantViolation"
        /\ newTable' = NullTable
        /\ returned' = NullTable

C3_DuplicateKey == [](C3_DuplicateKeyState) /\ [][C3_DuplicateKeyStep]_vars

C3_Witness ==
    /\ feed.kind = "duplicate"
    /\ Failed("ReplayInvariantViolation")
    /\ N = MaxRecords
    /\ reader.pos < Len(reader.data)

\* C4 (truncated stream): on any proper prefix of a snapshot stream Deserialize
\* fails with StreamFault at a Read asking for more bytes than remain; it never
\* returns a table, and it never consumes bytes the stream does not hold.
C4_Truncated ==
    /\ reader.pos <= Len(reader.data)
    /\ feed.kind = "truncated" =>
          /\ returned = NullTable
          /\ dpc # "done"
          /\ dpc = "failed" =>
                /\ dexc.what = "StreamFault"
                /\ reader.pos + dexc.arg > Len(reader.data)
                /\ newTable = NullTable

\* a stream cut inside the key bytes of a record
C4_Witness ==
    /\ feed.kind = "truncated"
    /\ Failed("StreamFault")
    /\ key.m_size = 1
    /\ dexc.arg = 1
    /\ reader.pos = Len(reader.data)
    /\ reader.pos > 1 + SettingSize + 1

\* C5 (counter accuracy): when Serialize completes, records-written equals the
\* number of live records, whatever it held before the call; when Deserialize of
\* that stream completes, records-read of the returned table equals it too.
C5_CounterAccuracy ==
    /\ spc = "done" => hashTable.saved = N
    /\ (feed.kind = "snapshot" /\ dpc = "done") => returned.loaded = N

C5_Witness ==
    /\ spc = "done"
    /\ feed.kind = "snapshot"
    /\ dpc = "done"
    /\ N = MaxRecords
    /\ hashTable.saved = MaxRecords
    /\ returned.loaded = MaxRecords

\* C6 (empty table): Serialize of a table without records writes exactly
\* [3][TableSettings][0]; Deserialize of it returns a table with no records and
\* the same settings, and never reaches the write capability's Add.
C6_EmptyTable ==
    N = 0 =>
        /\ spc = "done" =>
              /\ writer.data = <<3>> \o hashTable.setting \o <<0>>
              /\ writer.writes = 3
        /\ feed.kind = "snapshot" =>
              /\ dpc \notin {"KeySize", "KeyData", "ValueSize", "ValueData",
                             "Add", "NextFlag", "Increment", "failed"}
              /\ newTable.recs = {}
              /\ dpc = "done" =>
                    /\ returned.alive
                    /\ returned.recs = {}
                    /\ returned.setting = hashTable.setting
                    /\ reader.pos = Len(reader.data)

C6_Witness ==
    /\ N = 0
    /\ spc = "done"
    /\ Len(writer.data) = SettingSize + 2
    /\ feed.kind = "snapshot"
    /\ dpc = "done"
    /\ returned.alive
    /\ returned.setting # [i \in 1 .. SettingSize |-> 0]

\* C7 (stream bracketing): Serialize calls writer.Begin() once, before any
\* Write, and writer.End() once, after the Write of the terminating flag, with
\* no Write after it; a run that completes has made both calls.  Deserialize
\* calls reader.Begin() once before the version Read, and a run that returns a
\* table has called reader.End() once, after the Read of the false flag; no
\* Read follows End.
C7_BracketState ==
    /\ writer.begun <= 1 /\ writer.ended <= 1
    /\ writer.writes > 0 => writer.begun = 1
    /\ writer.ended = 1 => writer.data[Len(writer.data)] = 0
    /\ spc = "done" => writer.begun = 1 /\ writer.ended = 1
    /\ reader.begun <= 1 /\ reader.ended <= 1
    /\ reader.reads > 0 => reader.begun = 1
    /\ reader.ended = 1 => reader.data[reader.pos] = 0 \/ reader.data[reader.pos] > 1
    /\ dpc = "done" => reader.begun = 1 /\ reader.ended = 1
    /\ returned.alive => dpc = "done"

C7_BracketStep ==
    /\ writer'.begun > writer.begun => writer.writes = 0
    /\ writer'.writes > writer.writes => writer.begun = 1 /\ writer.ended = 0
    /\ writer'.ended > writer.ended =>
          /\ writer'.writes = writer.writes
          /\ writer.writes = 3 + 5 * N
    /\ reader'.begun > reader.begun => reader.reads = 0
    /\ reader'.reads > reader.reads => reader.begun = 1 /\ reader.ended = 0
    /\ reader'.ended > reader.ended =>
          /\ reader'.reads = reader.reads
          /\ ~hasMoreData
          /\ returned'.alive

SentinelSeen == dpc \in {"Increment", "End", "done"} /\ ~hasMoreData

C8_SentinelState ==
    /\ feed.kind = "trailing" =>
          /\ dpc # "failed"
          /\ dpc = "done" =>
                /\ reader.pos = Len(reader.data) - 1
                /\ returned.recs = hashTable.recs
                /\ returned.setting = hashTable.setting
    /\ dpc = "done" =>
          /\ returned.alive
          /\ FALSE \in BoolOfByte(reader.data[reader.pos])

C8_SentinelStep ==
    SentinelSeen =>
        /\ reader'.pos = reader.pos
        /\ reader'.reads = reader.reads
        /\ newTable'.recs \cup returned'.recs = newTable.recs \cup returned.recs
        /\ dexc' = NoException
        /\ dpc' \in {"End", "done"}

C8_Sentinel == [](C8_SentinelState) /\ [][C8_SentinelStep]_vars

C8_Witness ==
    /\ feed.kind = "trailing"
    /\ feed.at = 1
    /\ dpc = "done"
    /\ reader.pos < Len(reader.data)
    /\ returned.recs = hashTable.recs
    /\ N = MaxRecords

\* C9 (zero-length blocks): a record with an empty key and an empty value is
\* written as flag 1, key size 0, value size 0 and no block bytes, and
\* Deserialize inserts it as a record with empty key and value; a size of zero
\* neither ends the record sequence nor raises an error.
EmptyRecord == [key |-> <<>>, value |-> <<>>]

EmptyGroup == <<1>> \o [i \in 1 .. 2 * SizeWidth |-> 0]

C9_ZeroState ==
    /\ (spc = "Increment" /\ cur = EmptyRecord) =>
          /\ Len(writer.data) >= Len(EmptyGroup)
          /\ SubSeq(writer.data, Len(writer.data) - Len(EmptyGroup) + 1,
                    Len(writer.data)) = EmptyGroup
    /\ (spc = "done" /\ hashTable.recs = {EmptyRecord}) =>
          writer.data = <<3>> \o hashTable.setting \o EmptyGroup \o <<0>>
    /\ (feed.kind = "snapshot" /\ dpc = "done" /\ EmptyRecord \in hashTable.recs) =>
          /\ EmptyRecord \in returned.recs
          /\ Cardinality(returned.recs) = N
          /\ returned.loaded = N

C9_ZeroStep ==
    /\ (dpc = "KeyData" /\ key.m_size = 0) =>
          dpc' = "ValueSize" /\ key'.m_data = <<>> /\ dexc' = NoException
    /\ (dpc = "ValueData" /\ value.m_size = 0) =>
          dpc' = "Add" /\ value'.m_data = <<>> /\ dexc' = NoException
    /\ (dpc = "Add" /\ key.m_size = 0 /\ value.m_size = 0
            /\ <<>> \notin KeysOf(newTable.recs)) =>
          EmptyRecord \in newTable'.recs /\ dexc' = NoException

C9_ZeroLength == [](C9_ZeroState) /\ [][C9_ZeroStep]_vars

C9_Witness ==
    /\ feed.kind = "snapshot"
    /\ dpc = "done"
    /\ EmptyRecord \in hashTable.recs
    /\ EmptyRecord \in returned.recs
    /\ N = MaxRecords
    /\ returned.loaded = MaxRecords

\* C10 as stated (monotonic counters): neither the records-written nor the
\* records-read counter of a table ever decreases from one step to the next.
C10_MonotonicStep ==
    /\ hashTable'.saved >= hashTable.saved
    /\ hashTable'.loaded >= hashTable.loaded
    /\ (newTable.alive /\ newTable'.alive) => newTable'.loaded >= newTable.loaded
    /\ (newTable.alive /\ returned'.alive) => returned'.loaded >= newTable.loaded

C10_Monotonic == [][C10_MonotonicStep]_vars

\* C10 as amended: the records-read counter of a table never decreases; the
\* records-written counter decreases only in the reset to 0 that opens a
\* Serialize call (after writer.Begin(), before the first Write), and never
\* otherwise.
C10_ResetThenMonotonicStep ==
    /\ hashTable'.saved < hashTable.saved =>
          /\ hashTable'.saved = 0
          /\ writer.begun = 1 /\ writer.writes = 0 /\ writer.ended = 0
    /\ hashTable'.loaded >= hashTable.loaded
    /\ (newTable.alive /\ newTable'.alive) => newTable'.loaded >= newTable.loaded
    /\ (newTable.alive /\ returned'.alive) => returned'.loaded >= newTable.loaded
    /\ (returned.alive /\ returned'.alive) => returned'.loaded >= returned.loaded

C10_ResetThenMonotonic == [][C10_ResetThenMonotonicStep]_vars

\* both counters have been advanced
C10_Witness ==
    /\ hashTable.saved = MaxRecords
    /\ spc = "done"
    /\ newTable.alive
    /\ newTable.loaded = MaxRecords - 1
    /\ dpc = "KeySize"

\* C11 as stated (prior tags stay dispatchable): a stream whose first byte is
\* 1 or 2 is handed to a version-specific reader and does not fail with
\* UnsupportedVersion.
C11_PriorTagsDispatched ==
    (dpc # "idle" /\ Len(reader.data) >= 1 /\ reader.data[1] \in {1, 2}) =>
        dexc.what # "UnsupportedVersion"

\* C11 as amended: the driver dispatches tag 3 only.  No reader is registered
\* for the prior tags 1 and 2 (the Deprecated namespace is empty), so a stream
\* whose first byte is 1 or 2 fails with UnsupportedVersion carrying that byte,
\* and only a version byte of 3 ever reaches a versioned reader.
PastDispatch == dpc \notin {"idle", "Begin", "Version", "Dispatch"}

C11_OnlyCurrentTag ==
    /\ (PastDispatch /\ Len(reader.data) >= 1 /\ reader.data[1] \in {1, 2}) =>
          /\ dpc = "failed"
          /\ dexc = Exception("UnsupportedVersion", reader.data[1])
    /\ (PastDispatch /\ dexc.what # "UnsupportedVersion" /\ Len(reader.data) >= 1) =>
          reader.data[1] = 3 /\ version = 3

C11_Witness ==
    /\ Failed("UnsupportedVersion")
    /\ reader.data[1] = 1
    /\ dexc.arg = 1
    /\ feed.kind = "corrupted"

\* Records inserted into the table under construction so far.
Inserted == Cardinality(newTable.recs)

\* C12 as stated (replay loop ordering): the counter is incremented before the
\* next PresenceFlag is read, so whenever a PresenceFlag is about to be read
\* (and hence at any fault raised by that Read) records-read equals the number
\* of records already inserted.
C12_CountedBeforeFlag ==
    dpc \in {"FirstFlag", "NextFlag"} => newTable.loaded = Inserted

\* C12 as amended: each iteration runs decode, Add, read the next PresenceFlag,
\* increment records-read.  At the first PresenceFlag Read both numbers are 0;
\* at every later PresenceFlag Read, and at a fault raised by it, records-read
\* is one less than the number of records inserted; the two are equal again
\* at the loop test, while the next record is decoded, and at reader.End().
C12_FlagBeforeCountState ==
    /\ dpc = "FirstFlag" => newTable.loaded = 0 /\ Inserted = 0
    /\ dpc \in {"NextFlag", "Increment"} => newTable.loaded = Inserted - 1
    /\ dpc \in {"KeySize", "KeyData", "ValueSize", "ValueData", "Add", "End"} =>
          newTable.loaded = Inserted
    /\ dpc = "done" => returned.loaded = Cardinality(returned.recs)

C12_FlagBeforeCountStep ==
    /\ (newTable.alive /\ newTable'.alive /\ newTable'.loaded # newTable.loaded) =>
          /\ dpc = "Increment"
          /\ newTable'.loaded = newTable.loaded + 1
          /\ reader' = reader
          /\ newTable'.recs = newTable.recs
    /\ (newTable.alive /\ newTable'.alive /\ newTable'.recs # newTable.recs) =>
          /\ dpc = "Add" /\ dpc' = "NextFlag"
          /\ newTable'.loaded = newTable.loaded
    /\ (dpc = "NextFlag" /\ dpc' = "failed") =>
          /\ dexc'.what = "StreamFault"
          /\ newTable.loaded = Inserted - 1
    /\ (dpc = "NextFlag" /\ dpc' # "failed" /\ dpc' # dpc) =>
          /\ dpc' = "Increment"
          /\ reader'.reads = reader.reads + 1
          /\ newTable' = newTable

C12_FlagBeforeCount ==
    []C12_FlagBeforeCountState /\ [][C12_FlagBeforeCountStep]_vars

\* A flag Read that is about to fault after two records were inserted.
C12_Witness ==
    /\ dpc = "NextFlag"
    /\ ~CanRead(reader, 1)
    /\ Inserted = 2
    /\ newTable.loaded = 1

\* The orders in which a traversal can visit the records of a set, each
\* record exactly once.
Orders(S) ==
    { f \in [1 .. Cardinality(S) -> S] :
        \A i, j \in 1 .. Cardinality(S) : i # j => f[i] # f[j] }

\* flag 1, key length, key bytes, value length, value bytes
Group(r) ==
    <<1>> \o SizeBytes(Len(r.key)) \o r.key \o SizeBytes(Len(r.value)) \o r.value

RECURSIVE Groups(_, _)
Groups(f, i) ==
    IF i > Len(f) THEN <<>> ELSE Group(f[i]) \o Groups(f, i + 1)

\* tag 3, the settings verbatim, one group per record, a single flag 0
Layout(t, f) == <<3>> \o t.setting \o Groups(f, 1) \o <<0>>

IsPrefix(a, b) == Len(a) <= Len(b) /\ a = SubSeq(b, 1, Len(a))

\* C13 (wire layout): what a completed Serialize has written is the version
\* tag 3, the settings bytes, one group (flag 1, key length, key bytes, value
\* length, value bytes) for each record of the table exactly once in some
\* traversal order, and a single flag 0 as the last byte; it took 2 + 5N + 1
\* Writes.  While Serialize runs (and after a fault) the bytes written so far
\* are a prefix of such a layout.
C13_WireLayout ==
    /\ (spc = "done" /\ dpc = "idle") =>
          \E f \in Orders(hashTable.recs) :
              /\ writer.data = Layout(hashTable, f)
              /\ writer.data[Len(writer.data)] = 0
              /\ writer.writes = 2 + 5 * N + 1
    /\ dpc = "idle" =>
          \E f \in Orders(hashTable.recs) :
              IsPrefix(writer.data, Layout(hashTable, f))

C13_Witness ==
    /\ spc = "done"
    /\ N = 2
    /\ \E r \in hashTable.recs : r.key = <<>> /\ r.value # <<>>
    /\ Len(writer.data) >= 1 + SettingSize + 2 * (1 + 2 * SizeWidth) + 1 + 2

\* C14 as stated (counter publication under concurrency): a read of
\* records-written made concurrently with Serialize returns the value from
\* before the call or the value the call ends with, never a per-record value
\* in between.
C14_NoIntermediate ==
    (observer.when = "during" /\ spc \in {"done", "failed"}) =>
        observer.seen \in {observer.pre, hashTable.saved}

\* C14 as amended: a read of records-written made after Serialize has returned
\* (after its release fence) returns the final value N, and records-read can
\* only be read from the returned table, where it is the final value.  A read
\* made while Serialize runs is not confined to the value from before the call
\* and the final one: it returns the value from before the call, the 0 of the
\* reset, or any per-record count up to the number of records written so far.
C14_PublishedAtEnd ==
    /\ observer.when = "after" => observer.seen = N /\ spc = "done"
    /\ observer.when = "during" =>
          \/ observer.seen = observer.pre
          \/ observer.seen \in 0 .. hashTable.saved
    /\ observer.loaded # -1 =>
          /\ dpc = "done"
          /\ observer.loaded = Cardinality(returned.recs)
          /\ observer.loaded = N

\* The observer reads 1 while the second of two records is being written.
C14_Witness ==
    /\ observer.when = "during"
    /\ observer.pre = 0
    /\ observer.seen = 1
    /\ spc = "done"
    /\ hashTable.saved = 2

C14_WitnessAfter ==
    /\ observer.when = "after"
    /\ observer.seen = 2
    /\ observer.loaded = 2

\* The step in which WritableHashTable::Add hands a record to the guard.
RegisterActionInvoked == dpc = "Add" /\ AddNeedsReclaim(newTable, key.m_data)

\* Add calls of the current Deserialize run that have returned: after the
\* version, the settings and the first flag, every record takes five Reads.
AddsReturned == (reader.reads - 3) \div 5

\* C15 (the replay guard is a trap): every invocation of RegisterAction throws
\* the fatal error, ends the call and leaves nothing behind (no table, nothing
\* registered); ReplayInvariantViolation has no other source; and a table is
\* returned only by runs in which RegisterAction was never invoked, that is,
\* runs in which every Add inserted a fresh key.
C15_GuardState ==
    /\ dexc.what = "ReplayInvariantViolation" =>
          dpc = "failed" /\ ~returned.alive /\ ~newTable.alive
    /\ returned.alive =>
          /\ dexc = NoException
          /\ reader.reads = 3 + 5 * AddsReturned
          /\ Cardinality(returned.recs) = AddsReturned

C15_GuardStep ==
    /\ RegisterActionInvoked =>
          /\ dexc' = Exception("ReplayInvariantViolation", 0)
          /\ dpc' = "failed"
          /\ newTable' = NullTable
          /\ returned' = NullTable
          /\ reader' = reader
    /\ (dexc'.what = "ReplayInvariantViolation" /\ dexc.what = "none") =>
          RegisterActionInvoked

C15_GuardIsTrap == []C15_GuardState /\ [][C15_GuardStep]_vars

\* The guard fires on a stream in which a changed byte made two keys equal.
C15_Witness ==
    /\ Failed("ReplayInvariantViolation")
    /\ feed.kind = "corrupted"
    /\ ~returned.alive
    /\ AddsReturned = 1

\* Records whose five Writes (flag, key length, key bytes, value length,
\* value bytes) all succeeded before the Write that faulted: the last Write
\* call is the faulted one, the first two carried the tag and the settings.
WrittenBeforeFault ==
    IF writer.writes - 1 < 2 THEN 0 ELSE (writer.writes - 1 - 2) \div 5

\* C16 (Serialize fault outcome): a faulted Write leaves Serialize at once
\* with StreamFault, transferring nothing and leaving the table as it is;
\* afterwards no Write is issued and writer.End() is never called, and
\* records-written stays at the number of records that had been written
\* completely before the fault.
C16_FaultState ==
    /\ spc = "failed" <=> sexc.what = "StreamFault"
    /\ sexc.what \in {"none", "StreamFault"}
    /\ spc = "failed" =>
          /\ writer.ended = 0
          /\ writer.begun = 1
          /\ hashTable.saved = WrittenBeforeFault
          /\ hashTable.saved <= N

C16_FaultStep ==
    /\ (sexc.what = "none" /\ sexc'.what # "none") =>
          /\ spc' = "failed"
          /\ writer'.writes = writer.writes + 1
          /\ writer'.data = writer.data
          /\ writer'.ended = 0
          /\ hashTable' = hashTable
    /\ (spc = "failed" /\ spc' = "failed") =>
          writer' = writer /\ hashTable' = hashTable
    /\ (spc = "failed" /\ spc' # "failed") =>
          spc' = "Begin" /\ writer' = NewWriter

C16_SerializeFault == []C16_FaultState /\ [][C16_FaultStep]_vars

\* The Write of the second record's key bytes faults: one record is counted.
C16_Witness ==
    /\ spc = "failed"
    /\ N = 2
    /\ writer.writes = 2 + 5 + 3
    /\ hashTable.saved = 1
    /\ writer.ended = 0

\* Records Serialize still has to write: all of them before the iterator is
\* obtained, afterwards those the iterator has not yielded yet.
ToVisit ==
    IF spc \in {"Begin", "Reset", "Version", "Setting", "Iterator"}
    THEN N
    ELSE Cardinality(iterator)

SPos ==
    [Begin |-> 19, Reset |-> 18, Version |-> 17, Setting |-> 16, Iterator |-> 15,
     MoveNext |-> 14, Flag |-> 20, KeySize |-> 19, KeyData |-> 18,
     ValueSize |-> 17, ValueData |-> 16, Increment |-> 15,
     EndFlag |-> 2, End |-> 1, done |-> 0, failed |-> 0]

\* Decreases with every statement of Serialize: each MoveNext that yields a
\* record leaves one record less to visit.
SMeasure == 32 * ToVisit + SPos[spc]

DPos ==
    [idle |-> 16, Begin |-> 15, Version |-> 14, Dispatch |-> 13, Setting |-> 12,
     MakeTable |-> 11, FirstFlag |-> 10, Increment |-> 9, KeySize |-> 8,
     KeyData |-> 7, ValueSize |-> 6, ValueData |-> 5, Add |-> 4, NextFlag |-> 3,
     End |-> 1, done |-> 0, failed |-> 0]

\* Decreases with every statement of Deserialize: each iteration consumes a
\* PresenceFlag and two length fields, even when both lengths are zero.
DMeasure == 16 * (Len(reader.data) - reader.pos) + DPos[dpc]

STerminated == spc \in {"done", "failed"}
DTerminated == dpc \in {"done", "failed"}

C17_Outcomes ==
    /\ SMeasure >= 0 /\ DMeasure >= 0
    /\ dpc = "done" => returned.alive /\ dexc = NoException
    /\ dpc = "failed" =>
          /\ ~returned.alive
          /\ dexc.what \in {"StreamFault", "UnsupportedVersion",
                            "ReplayInvariantViolation"}
    /\ spc = "done" =>
          /\ sexc = NoException
          /\ writer.data[Len(writer.data)] = 0
          /\ iterator = {}
    /\ spc = "failed" => sexc.what = "StreamFault"

C17_Progress ==
    /\ (~STerminated /\ spc' # spc) => SMeasure' < SMeasure
    /\ (~DTerminated /\ dpc # "idle" /\ dpc' # dpc) =>
          /\ DMeasure' < DMeasure
          /\ reader'.data = reader.data
    /\ (dpc = "Increment" /\ dpc' = "KeySize") =>
          reader.pos >= 1 + SettingSize + 1 + (1 + 2 * SizeWidth)

\* C17 (termination): on every finite byte stream Deserialize terminates,
\* returning a table or failing with StreamFault, UnsupportedVersion or
\* ReplayInvariantViolation, and on every table (of finitely many records)
\* Serialize terminates, after writing the terminating flag unless a Write
\* faulted.  Every statement lowers a measure bounded below by 0.
C17_Terminates ==
    /\ []C17_Outcomes
    /\ [][C17_Progress]_vars
    /\ (spc = "Begin") ~> STerminated
    /\ (dpc = "Begin") ~> DTerminated

\* Deserialize ran its loop twice and returned; Serialize had completed.
C17_Witness ==
    /\ dpc = "done"
    /\ spc = "done"
    /\ returned.loaded = 2
    /\ reader.pos = Len(reader.data)
    /\ \E r \in returned.recs : r.key = <<>> /\ r.value = <<>>

\* C18 (readers do not disturb a snapshot): while no writer changes the table,
\* lock-free readers interleaved at any point never leave Serialize without a
\* statement it can execute, their steps change nothing Serialize reads or
\* writes, and a completed Serialize has emitted every live record exactly
\* once whatever the readers did.
C18_ReadersState ==
    /\ ~STerminated => ENABLED Serialize
    /\ spc = "done" =>
          /\ \E f \in Orders(hashTable.recs) : writer.data = Layout(hashTable, f)
          /\ hashTable.saved = N
    /\ (lookup.at # "none" /\ lookup.found) =>
          Record(lookup.key, lookup.value) \in hashTable.recs
    /\ (lookup.at # "none" /\ ~lookup.found) =>
          lookup.key \notin KeysOf(hashTable.recs)

C18_ReadersStep ==
    lookup' # lookup =>
        \/ UNCHANGED svars
        \/ spc' = "Begin" /\ lookup' = NoLookup

C18_ReadersHarmless == []C18_ReadersState /\ [][C18_ReadersStep]_vars

\* A lookup found a record between two Writes of Serialize, which completed.
C18_Witness ==
    /\ spc = "done"
    /\ N = 2
    /\ lookup.at = "ValueSize"
    /\ lookup.found
    /\ lookup.value # <<>>

\* The table apart from its records-written counter.
Content(t) == [t EXCEPT !.saved = 0]

\* C19 (Serialize leaves the table unchanged): no statement of Serialize, in a
\* run that completes or in one that a Write faults, changes the table's
\* settings, its set of records or its records-read counter; the only field
\* it modifies is records-written, and only in the reset and the increment.
C19_FrameStep ==
    /\ ~STerminated => Content(hashTable') = Content(hashTable)
    /\ (~STerminated /\ hashTable'.saved # hashTable.saved) =>
          \/ spc = "Reset" /\ hashTable'.saved = 0
          \/ spc = "Increment" /\ hashTable'.saved = hashTable.saved + 1
    /\ dpc # "idle" => hashTable' = hashTable

C19_Frame ==
    [](hashTable.alive /\ hashTable.loaded = 0 /\ UniqueKeys(hashTable.recs))
        /\ [][C19_FrameStep]_vars

\* Serialize has completed on a table of two records and counted them; the
\* table still holds both.
C19_Witness ==
    /\ spc = "done"
    /\ dpc = "idle"
    /\ writer.ended = 1
    /\ hashTable.saved = 2
    /\ Cardinality(hashTable.recs) = 2
    /\ hashTable.setting \in Settings

\* Index of the first PresenceFlag in a stream: after the tag and the settings.
FirstFlagAt == 1 + SettingSize + 1

\* The keys of the record groups among the bytes consumed from a stream,
\* walked by their length fields from the flag at index i; the flag at index
\* last, the last byte consumed, is the one that ended the loop.
RECURSIVE KeysConsumed(_, _, _)
KeysConsumed(bs, i, last) ==
    IF i >= last
    THEN <<>>
    ELSE LET ks == SizeOfBytes(SubSeq(bs, i + 1, i + SizeWidth))
             vs == SizeOfBytes(SubSeq(bs, i + SizeWidth + ks + 1,
                                          i + 2 * SizeWidth + ks))
         IN  <<SubSeq(bs, i + SizeWidth + 1, i + SizeWidth + ks)>>
                 \o KeysConsumed(bs, i + 1 + 2 * SizeWidth + ks + vs, last)

\* C20 (a successful replay is duplicate-free and fully accounted): whenever
\* Deserialize returns a table, the number of its records, its records-read
\* counter and the number of true PresenceFlags consumed are equal, the keys
\* consumed are pairwise distinct and are the table's keys; when the stream
\* is the output of Serialize, the bytes consumed before reader.End() are
\* exactly the bytes Serialize wrote.
C20_Accounted ==
    returned.alive =>
        LET ks == KeysConsumed(reader.data, FirstFlagAt, reader.pos)
        IN  /\ dpc = "done" /\ reader.ended = 1
            /\ Cardinality(returned.recs) = Len(ks)
            /\ returned.loaded = Len(ks)
            /\ \A i, j \in 1 .. Len(ks) : i # j => ks[i] # ks[j]
            /\ KeysOf(returned.recs) = { ks[i] : i \in 1 .. Len(ks) }
            /\ reader.pos <= Len(reader.data)
            /\ feed.kind = "snapshot" =>
                  /\ reader.data = writer.data
                  /\ reader.pos = Len(writer.data)

\* Two records were replayed from a stream that had one byte changed.
C20_Witness ==
    /\ returned.alive
    /\ feed.kind = "corrupted"
    /\ returned.loaded = 2
    /\ Len(KeysConsumed(reader.data, FirstFlagAt, reader.pos)) = 2
    /\ returned.recs # hashTable.recs

C20_WitnessSnapshot ==
    /\ returned.alive
    /\ feed.kind = "snapshot"
    /\ returned.loaded = 2
    /\ reader.pos = Len(writer.data)

====
